---- MODULE Spec2Model ----
(***************************************************************************)
(* A model of train_routes (main.py): the StationMap graph, its            *)
(* construction by add_route, the shortest-route search of                 *)
(* find_shortest_route (Dijkstra over a heapq priority queue) and the      *)
(* csv loader parse_routes.                                                *)
(*                                                                         *)
(* Station objects are modelled by reference: `objs' is the sequence of    *)
(* all Station objects ever constructed, a reference is an index into it.  *)
(* A dict is a sequence of (key, value) entries in insertion order, which  *)
(* is the order Python iterates it in.                                     *)
(***************************************************************************)
EXTENDS Integers, Sequences, FiniteSets, TLC

\* ------------------------------------------------------------------ bounds
\* The station names the callers draw from, in the order new names are
\* introduced (see NamesInOrder).
NameSeq == <<"A", "B", "C", "D">>
Names == {NameSeq[i] : i \in DOMAIN NameSeq}
\* add_route is called with distances 0..MaxWeight.
MaxWeight == 1
\* At most MaxRoutes routes are ever stored in one StationMap.
MaxRoutes == 4
\* parse_routes reads files of at most MaxLines lines.
MaxLines == 3

Weights == 0..MaxWeight

\* math.inf: greater than every distance a search can compute.
Inf == 1000000
\* None, the stop count of the "no route" result.
None == -1

VARIABLES
    stations,            \* StationMap.stations: dict name -> Station, in insertion order
    objs,                \* every Station object constructed so far, by reference
    pc,                  \* "idle" | "search" | "returned" | "raised"
    call,                \* the call in progress or last made
    raised,              \* the exception the last call raised, or NoError
    result,              \* the value find_shortest_route returned, or NoResult
    origin,              \* find_shortest_route's locals
    destination,
    unvisited_stations,  \* the heapq list of (distance, Station) tuples
    visited,
    dist,
    prev,
    popped,              \* the tuple the last loop iteration popped
    read_lines,          \* parse_routes: the lines of the file read so far
    line_num,            \* parse_routes: reader.line_num
    ppc                  \* parse_routes: "none" | "start" | "reading" | "returned" | "raised"

mapVars == <<stations, objs>>
searchVars == <<origin, destination, unvisited_stations, visited, dist, prev, popped>>
parseVars == <<read_lines, line_num, ppc>>
vars == <<stations, objs, pc, call, raised, result, origin, destination,
          unvisited_stations, visited, dist, prev, popped, read_lines, line_num, ppc>>

NoError == [type |-> "none", arg |-> <<>>, line |-> 0]
NoResult == <<>>
NoCall == [op |-> "none", origin_name |-> "", destination_name |-> "", distance |-> 0]
EmptyDict == <<>>

\* ------------------------------------------------------------------ dicts
\* A dict is a sequence of entries [key, value]; keys are unique.
Keys(d) == {d[i].key : i \in DOMAIN d}
DictGet(d, k) == d[CHOOSE i \in DOMAIN d : d[i].key = k].value
DictSet(d, k, v) ==
    IF k \in Keys(d)
    THEN [i \in DOMAIN d |-> IF d[i].key = k THEN [key |-> k, value |-> v] ELSE d[i]]
    ELSE Append(d, [key |-> k, value |-> v])

\* ------------------------------------------------------------------ Station
\* Station.__init__
Station(name) == [name |-> name, routes |-> EmptyDict]

\* Station.add_route without the test of line 144: the new distance
\* replaces the stored one.
Station_add_route_overwrite(os, self, dest, distance) ==
    [raised |-> NoError,
     objs |-> [os EXCEPT ![self].routes = DictSet(@, dest, distance)]]

\* Station.add_route on the object `self' of the object store `os'.
Station_add_route(os, self, dest, distance) ==
    IF dest \in Keys(os[self].routes)
    THEN [raised |-> [type |-> "DuplicateRouteError",
                      arg |-> <<os[self].name, os[dest].name>>, line |-> 0],
          objs |-> os]
    ELSE [raised |-> NoError,
          objs |-> [os EXCEPT ![self].routes = DictSet(@, dest, distance)]]

\* Station.__gt__: the reflected operand of s < t on two Stations.
Station_gt(s, t) == FALSE

\* ------------------------------------------------------------------ StationMap
\* StationMap._add_station without the test of line 37: a new Station
\* replaces the registered one.
_add_station_always(m, station_name) ==
    [stations |-> DictSet(m.stations, station_name, Len(m.objs) + 1),
     objs |-> Append(m.objs, Station(station_name))]

\* StationMap._add_station on the map m = [stations, objs].
_add_station(m, station_name) ==
    IF station_name \notin Keys(m.stations)
    THEN [stations |-> DictSet(m.stations, station_name, Len(m.objs) + 1),
          objs |-> Append(m.objs, Station(station_name))]
    ELSE m

\* StationMap.add_route: the map and the exception after the call.
StationMap_add_route(m, origin_name, destination_name, distance) ==
    LET m1 == _add_station(m, origin_name)
        m2 == _add_station(m1, destination_name)
        r == Station_add_route(m2.objs, DictGet(m2.stations, origin_name),
                               DictGet(m2.stations, destination_name), distance)
    IN [stations |-> m2.stations, objs |-> r.objs, raised |-> r.raised]

RECURSIVE SumLen(_, _)
SumLen(os, i) == IF i = 0 THEN 0 ELSE Len(os[i].routes) + SumLen(os, i - 1)
\* The number of routes stored in the object store.
NumRoutes(os) == SumLen(os, Len(os))

\* ------------------------------------------------------------------ heapq
\* (distance, Station) < (distance, Station), as Python compares tuples: the
\* first elements that differ decide; two distinct Stations are compared by
\* the reflected Station.__gt__.
TupleLt(a, b) ==
    IF a[1] # b[1] THEN a[1] < b[1]
    ELSE IF a[2] # b[2] THEN Station_gt(b[2], a[2])
    ELSE FALSE

\* heapq._siftdown; positions are 0-based as in heapq, heap[pos + 1] is the item.
RECURSIVE _siftdown(_, _, _, _)
_siftdown(heap, startpos, pos, newitem) ==
    IF pos > startpos
    THEN LET parentpos == (pos - 1) \div 2
             parent == heap[parentpos + 1]
         IN IF TupleLt(newitem, parent)
            THEN _siftdown([heap EXCEPT ![pos + 1] = parent], startpos, parentpos, newitem)
            ELSE [heap EXCEPT ![pos + 1] = newitem]
    ELSE [heap EXCEPT ![pos + 1] = newitem]

\* heapq._siftup
RECURSIVE _siftup(_, _, _, _)
_siftup(heap, startpos, pos, newitem) ==
    LET endpos == Len(heap)
        childpos == 2 * pos + 1
        rightpos == childpos + 1
        smaller == IF rightpos < endpos /\ ~TupleLt(heap[childpos + 1], heap[rightpos + 1])
                   THEN rightpos ELSE childpos
    IN IF childpos < endpos
       THEN _siftup([heap EXCEPT ![pos + 1] = heap[smaller + 1]], startpos, smaller, newitem)
       ELSE _siftdown(heap, startpos, pos, newitem)

\* heapq.heappush: the heap after the push.
heappush(heap, item) == _siftdown(Append(heap, item), 0, Len(heap), item)

\* list.pop() in the place of heappop: the last item of the list.
heappop_last(heap) ==
    [item |-> heap[Len(heap)], heap |-> SubSeq(heap, 1, Len(heap) - 1)]

\* heapq.heappop of a non-empty heap: the item returned and the heap left.
heappop(heap) ==
    LET lastelt == heap[Len(heap)]
        rest == SubSeq(heap, 1, Len(heap) - 1)
    IN IF Len(rest) > 0
       THEN [item |-> rest[1], heap |-> _siftup(rest, 0, 0, lastelt)]
       ELSE [item |-> lastelt, heap |-> rest]

\* ------------------------------------------------------------------ search
\* d[k] = v on a dict keyed by Station (a function on the keys set so far).
FnSet(f, k, v) == [x \in (DOMAIN f) \cup {k} |-> IF x = k THEN v ELSE f[x]]

\* _count_stops counting the links of the chain, the last one included.
RECURSIVE _count_stops_links(_, _, _)
_count_stops_links(dest, orig, previous_stations) ==
    IF dest # orig
    THEN 1 + _count_stops_links(previous_stations[dest], orig, previous_stations)
    ELSE 0

\* StationMap._count_stops
RECURSIVE _count_stops(_, _, _)
_count_stops(dest, orig, previous_stations) ==
    IF previous_stations[dest] # orig
    THEN 1 + _count_stops(previous_stations[dest], orig, previous_stations)
    ELSE 0

\* The test of line 121 with <= for <.
Improves_le(route_total, best) == route_total <= best

\* The test of line 121.
Improves(route_total, best) == route_total < best

\* The for loop of find_shortest_route over current_station.routes, from its
\* i-th entry on; s = [dist, prev, heap, err] are the locals it updates
\* (err: a KeyError on dist[connected_station]).
RECURSIVE relax_routes(_, _, _, _, _)
relax_routes(os, current_station, i, vis, s) ==
    IF i > Len(os[current_station].routes) \/ s.err
    THEN s
    ELSE LET connected_station == os[current_station].routes[i].key
             route_total == s.dist[current_station]
                            + DictGet(os[current_station].routes, connected_station)
         IN IF connected_station \in vis
            THEN relax_routes(os, current_station, i + 1, vis, s)
            ELSE IF connected_station \notin DOMAIN s.dist
            THEN [s EXCEPT !.err = TRUE]
            ELSE IF Improves(route_total, s.dist[connected_station])
            THEN relax_routes(os, current_station, i + 1, vis,
                     [dist |-> [s.dist EXCEPT ![connected_station] = route_total],
                      prev |-> FnSet(s.prev, connected_station, current_station),
                      heap |-> heappush(s.heap, <<route_total, connected_station>>),
                      err |-> FALSE])
            ELSE relax_routes(os, current_station, i + 1, vis, s)

\* The Stations of a stations dict: self.stations.values().
Values(d) == {d[i].value : i \in DOMAIN d}

\* The loop of lines 94-99 starting every station at distance 0.
InitialDist_zero(sts, orig) == [station \in Values(sts) |-> 0]

\* The dist dict built by the loop of lines 94-99.
InitialDist(sts, orig) == [station \in Values(sts) |-> IF station = orig THEN 0 ELSE Inf]

\* ------------------------------------------------------------------ actions
NoLocals ==
    /\ origin = 0 /\ destination = 0
    /\ unvisited_stations = <<>> /\ visited = {}
    /\ dist = <<>> /\ prev = <<>> /\ popped = <<>>

ClearLocals ==
    /\ origin' = 0 /\ destination' = 0
    /\ unvisited_stations' = <<>> /\ visited' = {}
    /\ dist' = <<>> /\ prev' = <<>> /\ popped' = <<>>

Init ==
    /\ stations = EmptyDict /\ objs = <<>>
    /\ pc = "idle" /\ call = NoCall /\ raised = NoError /\ result = NoResult
    /\ NoLocals
    /\ read_lines = <<>> /\ line_num = 0 /\ ppc = "none"

\* The callers introduce new station names in the order of NameSeq. The code
\* uses a name only as a dict key, so every run is a renaming of such a run.
NamesInOrder(origin_name, destination_name) ==
    LET known == Keys(stations)
        n == Cardinality(known)
        n1 == IF origin_name \in known THEN n ELSE n + 1
        next(k) == IF k < Len(NameSeq) THEN {NameSeq[k + 1]} ELSE {}
    IN /\ origin_name \in known \cup next(n)
       /\ destination_name \in known \cup {origin_name} \cup next(n1)

\* A caller calls StationMap.add_route(origin_name, destination_name, distance).
AddRoute(origin_name, destination_name, distance) ==
    LET r == StationMap_add_route([stations |-> stations, objs |-> objs],
                                  origin_name, destination_name, distance)
    IN /\ ppc = "none" /\ pc = "idle"
       /\ NamesInOrder(origin_name, destination_name)
       /\ r.raised.type # "none" \/ NumRoutes(objs) < MaxRoutes
       /\ stations' = r.stations /\ objs' = r.objs
       /\ raised' = r.raised
       /\ pc' = IF r.raised.type = "none" THEN "returned" ELSE "raised"
       /\ call' = [op |-> "add_route", origin_name |-> origin_name,
                   destination_name |-> destination_name, distance |-> distance]
       /\ result' = NoResult
       /\ ClearLocals
       /\ UNCHANGED parseVars

\* Lines 75-81 with the destination looked up before the origin.
FindEntry_destination_first(sts, origin_name, destination_name) ==
    IF destination_name \notin Keys(sts)
    THEN [kind |-> "raise", name |-> destination_name]
    ELSE IF origin_name \notin Keys(sts)
    THEN [kind |-> "raise", name |-> origin_name]
    ELSE IF origin_name = destination_name
    THEN [kind |-> "same", name |-> ""]
    ELSE [kind |-> "search", name |-> ""]

\* Lines 75-81 without the test of line 80.
FindEntry_no_same_test(sts, origin_name, destination_name) ==
    IF origin_name \notin Keys(sts)
    THEN [kind |-> "raise", name |-> origin_name]
    ELSE IF destination_name \notin Keys(sts)
    THEN [kind |-> "raise", name |-> destination_name]
    ELSE [kind |-> "search", name |-> ""]

\* Lines 75-81 of find_shortest_route: what the call does before any search.
FindEntry(sts, origin_name, destination_name) ==
    IF origin_name \notin Keys(sts)
    THEN [kind |-> "raise", name |-> origin_name]
    ELSE IF destination_name \notin Keys(sts)
    THEN [kind |-> "raise", name |-> destination_name]
    ELSE IF origin_name = destination_name
    THEN [kind |-> "same", name |-> ""]
    ELSE [kind |-> "search", name |-> ""]

\* StationDoesNotExistError.__init__
StationDoesNotExistError(station_name) ==
    [type |-> "StationDoesNotExistError", arg |-> <<station_name>>, line |-> 0]

\* A caller calls find_shortest_route(origin_name, destination_name): lines
\* 75-103, up to the first test of the while loop.
FindShortestRoute(origin_name, destination_name) ==
    LET e == FindEntry(stations, origin_name, destination_name)
    IN /\ ppc = "none" /\ pc = "idle"
       /\ call' = [op |-> "find_shortest_route", origin_name |-> origin_name,
                   destination_name |-> destination_name, distance |-> 0]
       /\ CASE e.kind = "raise" ->
                 /\ raised' = StationDoesNotExistError(e.name)
                 /\ pc' = "raised" /\ result' = NoResult /\ ClearLocals
            [] e.kind = "same" ->
                 /\ raised' = NoError
                 /\ pc' = "returned" /\ result' = <<0, 0>> /\ ClearLocals
            [] e.kind = "search" ->
                 /\ raised' = NoError
                 /\ pc' = "search" /\ result' = NoResult
                 /\ origin' = DictGet(stations, origin_name)
                 /\ destination' = DictGet(stations, destination_name)
                 /\ visited' = {}
                 /\ dist' = InitialDist(stations, DictGet(stations, origin_name))
                 /\ prev' = <<>>
                 /\ unvisited_stations' =
                        heappush(<<>>, <<0, DictGet(stations, origin_name)>>)
                 /\ popped' = <<>>
       /\ UNCHANGED <<mapVars, parseVars>>

\* One iteration of the while loop of lines 105-126.
SearchLoop ==
    /\ pc = "search" /\ Len(unvisited_stations) > 0
    /\ LET p == heappop(unvisited_stations)
           current_station == p.item[2]
           s == relax_routes(objs, current_station, 1, visited,
                             [dist |-> dist, prev |-> prev, heap |-> p.heap, err |-> FALSE])
       IN /\ popped' = p.item
          /\ IF current_station = destination
             THEN /\ result' = <<dist[current_station],
                                 _count_stops(current_station, origin, prev)>>
                  /\ pc' = "returned" /\ raised' = NoError
                  /\ unvisited_stations' = p.heap
                  /\ UNCHANGED <<dist, prev, visited>>
             ELSE IF s.err
             THEN /\ raised' = [type |-> "KeyError", arg |-> <<>>, line |-> 0]
                  /\ pc' = "raised"
                  /\ dist' = s.dist /\ prev' = s.prev /\ unvisited_stations' = s.heap
                  /\ UNCHANGED <<result, visited>>
             ELSE /\ dist' = s.dist /\ prev' = s.prev /\ unvisited_stations' = s.heap
                  /\ visited' = visited \cup {current_station}
                  /\ UNCHANGED <<pc, raised, result>>
    /\ UNCHANGED <<mapVars, call, origin, destination, parseVars>>

\* The while loop ends on the empty queue: line 128.
SearchNoRoute ==
    /\ pc = "search" /\ Len(unvisited_stations) = 0
    /\ result' = <<Inf, None>>
    /\ pc' = "returned"
    /\ UNCHANGED <<mapVars, call, raised, searchVars, parseVars>>

\* ------------------------------------------------------------------ parse_routes
\* A line of the csv file is the list of its fields: n of them, of which the
\* first three are kept. The distance field is a sequence of characters.
FileNames == {"A", "B"}
DistFields == {<<"1">>, <<"1", "0">>, <<"-", "1">>, <<"x">>, <<>>}
Lines ==
    {[n |-> 0, origin |-> "", destination |-> "", distance |-> <<>>]}
    \cup {[n |-> 1, origin |-> "A", destination |-> "", distance |-> <<>>]}
    \cup {[n |-> 2, origin |-> "A", destination |-> "B", distance |-> <<>>]}
    \cup [n : {3}, origin : FileNames, destination : FileNames, distance : DistFields]

DigitValue(c) ==
    CASE c = "0" -> 0 [] c = "1" -> 1 [] c = "2" -> 2 [] c = "3" -> 3 [] c = "4" -> 4
      [] c = "5" -> 5 [] c = "6" -> 6 [] c = "7" -> 7 [] c = "8" -> 8 [] c = "9" -> 9
IsDigit(c) == c \in {"0", "1", "2", "3", "4", "5", "6", "7", "8", "9"}

RECURSIVE DecimalValue(_)
DecimalValue(s) ==
    IF Len(s) = 0 THEN 0
    ELSE 10 * DecimalValue(SubSeq(s, 1, Len(s) - 1)) + DigitValue(s[Len(s)])

\* Python's int(text) on a string of signs, digits and other characters: an
\* optional sign and at least one digit, or a ValueError.
int(text) ==
    LET signed == Len(text) > 0 /\ text[1] \in {"+", "-"}
        body == IF signed THEN Tail(text) ELSE text
    IN IF Len(body) > 0 /\ \A i \in DOMAIN body : IsDigit(body[i])
       THEN [ok |-> TRUE,
             value |-> IF signed /\ text[1] = "-" THEN 0 - DecimalValue(body)
                       ELSE DecimalValue(body)]
       ELSE [ok |-> FALSE, value |-> 0]

\* RouteParsingError.__init__: the message names the line when line is truthy.
RouteParsingError(message, line) ==
    [type |-> "RouteParsingError", arg |-> message, line |-> IF line # 0 THEN line ELSE 0]

\* The body of the for loop with the DuplicateRouteError swallowed.
parse_row_ignore_duplicate(m, row, n) ==
    IF row.n < 3
    THEN [stations |-> m.stations, objs |-> m.objs,
          raised |-> RouteParsingError(<<"Invalid route format">>, n)]
    ELSE IF ~int(row.distance).ok
    THEN [stations |-> m.stations, objs |-> m.objs,
          raised |-> RouteParsingError(<<"is not an integer">>, n)]
    ELSE LET r == StationMap_add_route(m, row.origin, row.destination,
                                       int(row.distance).value)
         IN [stations |-> r.stations, objs |-> r.objs, raised |-> NoError]

\* The body of the for loop of parse_routes on one row read at line number n:
\* the map and the exception after it.
parse_row(m, row, n) ==
    IF row.n < 3
    THEN [stations |-> m.stations, objs |-> m.objs,
          raised |-> RouteParsingError(<<"Invalid route format">>, n)]
    ELSE IF ~int(row.distance).ok
    THEN [stations |-> m.stations, objs |-> m.objs,
          raised |-> RouteParsingError(<<"is not an integer">>, n)]
    ELSE LET r == StationMap_add_route(m, row.origin, row.destination,
                                       int(row.distance).value)
         IN IF r.raised.type = "DuplicateRouteError"
            THEN [stations |-> r.stations, objs |-> r.objs,
                  raised |-> RouteParsingError(<<"Route parsing failed", "already exists">>
                                               \o r.raised.arg, n)]
            ELSE r

InitParse ==
    /\ stations = EmptyDict /\ objs = <<>>
    /\ pc = "idle" /\ call = NoCall /\ raised = NoError /\ result = NoResult
    /\ NoLocals
    /\ read_lines = <<>> /\ line_num = 0 /\ ppc = "start"

\* open(path): the file opens, or an OSError becomes a RouteParsingError.
ParseOpen ==
    /\ ppc = "start"
    /\ \/ ppc' = "reading" /\ raised' = NoError
       \/ ppc' = "raised" /\ raised' = RouteParsingError(<<"Unable to open route file">>, 0)
    /\ UNCHANGED <<mapVars, pc, call, result, searchVars, read_lines, line_num>>

\* The reader reads the next line of the file. csv.DictReader skips a line
\* with no field; any other line is a row of the for loop.
ParseLine(line) ==
    /\ ppc = "reading" /\ Len(read_lines) < MaxLines
    /\ read_lines' = Append(read_lines, line)
    /\ line_num' = line_num + 1
    /\ IF line.n = 0
       THEN UNCHANGED <<mapVars, raised, ppc>>
       ELSE LET r == parse_row([stations |-> stations, objs |-> objs], line, line_num + 1)
            IN /\ stations' = r.stations /\ objs' = r.objs
               /\ raised' = r.raised
               /\ ppc' = IF r.raised.type = "none" THEN "reading" ELSE "raised"
    /\ UNCHANGED <<pc, call, result, searchVars>>

\* The file ends: lines 199-202. The RouteParsingError of line 200 is
\* constructed and not raised.
ParseEnd ==
    /\ ppc = "reading"
    /\ ppc' = "returned"
    /\ UNCHANGED <<mapVars, pc, call, raised, result, searchVars, read_lines, line_num>>

NextParse ==
    \/ ParseOpen
    \/ \E line \in Lines : ParseLine(line)
    \/ ParseEnd

SpecParse == InitParse /\ [][NextParse]_vars

\* The call is over: the caller has its value or its exception, the frame and
\* its locals are gone, and the next call can be made.
Return ==
    /\ ppc = "none" /\ pc \in {"returned", "raised"}
    /\ pc' = "idle" /\ call' = NoCall /\ raised' = NoError /\ result' = NoResult
    /\ ClearLocals
    /\ UNCHANGED <<mapVars, parseVars>>

Next ==
    \/ \E o \in Names, d \in Names, w \in Weights : AddRoute(o, d, w)
    \/ \E o \in Names, d \in Names : FindShortestRoute(o, d)
    \/ SearchLoop
    \/ SearchNoRoute
    \/ Return

Spec == Init /\ [][Next]_vars

\* ------------------------------------------------------------------ the graph, as the claims see it
Refs == 1..Len(objs)
HasRouteIn(os, u, v) == v \in Keys(os[u].routes)
WeightIn(os, u, v) == DictGet(os[u].routes, v)
HasRoute(u, v) == HasRouteIn(objs, u, v)
Weight(u, v) == WeightIn(objs, u, v)
Range(q) == {q[i] : i \in DOMAIN q}
\* A route between two names exists in the map (sts, os).
HasNamedRoute(sts, os, o, d) ==
    /\ o \in Keys(sts) /\ d \in Keys(sts)
    /\ HasRouteIn(os, DictGet(sts, o), DictGet(sts, d))
Min(S) == CHOOSE x \in S : \A y \in S : x <= y

\* <<total weight, number of edges>> of every directed path from u to d that
\* visits no station twice and none of `seen'.
RECURSIVE PathStats(_, _, _)
PathStats(u, d, seen) ==
    IF u = d THEN {<<0, 0>>}
    ELSE UNION {{<<x[1] + Weight(u, v), x[2] + 1>> : x \in PathStats(v, d, seen \cup {v})}
                : v \in {v \in Refs \ seen : HasRoute(u, v)}}
Paths == PathStats(origin, destination, {origin})

\* find_shortest_route has returned from its search between two distinct stations.
SearchReturned ==
    /\ pc = "returned" /\ call.op = "find_shortest_route"
    /\ call.origin_name # call.destination_name

\* C1: when a search between two distinct stations joined by a directed path
\* returns, the distance it returns is the minimum total weight over all
\* directed paths from the origin to the destination.
C1_ShortestDistance ==
    (SearchReturned /\ Paths # {}) => result[1] = Min({x[1] : x \in Paths})

\* A search has returned a distance smaller than the weight of the direct
\* route, on a graph with a cycle through the origin.
C1_Witness ==
    /\ SearchReturned
    /\ HasRoute(origin, destination) /\ result[1] < Weight(origin, destination)
    /\ \E v \in Refs \ {origin} : HasRoute(origin, v) /\ HasRoute(v, origin)

\* The predecessor chain from station n back to the origin, n first: at most
\* `fuel' links are followed.
RECURSIVE Chain(_, _)
Chain(n, fuel) ==
    IF n = origin \/ fuel = 0 \/ n \notin DOMAIN prev THEN <<n>>
    ELSE <<n>> \o Chain(prev[n], fuel - 1)
RECURSIVE ChainWeight(_)
ChainWeight(c) ==
    IF Len(c) < 2 THEN 0 ELSE Weight(c[2], c[1]) + ChainWeight(Tail(c))

\* C2: when a search between two distinct connected stations returns, the
\* stop count is (number of edges - 1) of a directed path from the origin to
\* the destination whose total weight is the returned distance; that path is
\* the predecessor chain of the destination, and the stop count is the
\* number of stations strictly between its two ends.
C2_StopCount ==
    (SearchReturned /\ Paths # {}) =>
        LET c == Chain(destination, Len(objs))
        IN /\ <<result[1], result[2] + 1>> \in Paths
           /\ c[Len(c)] = origin
           /\ \A i \in 1..(Len(c) - 1) : HasRoute(c[i + 1], c[i])
           /\ \A i \in DOMAIN c, j \in DOMAIN c : c[i] = c[j] => i = j
           /\ ChainWeight(c) = result[1]
           /\ result[2] = Len(c) - 2

\* A search has returned a stop count of 1 or more between two stations that
\* also have a shortest path with another number of edges.
C2_Witness ==
    /\ SearchReturned /\ Paths # {}
    /\ result[2] >= 1
    /\ \E x \in Paths : x[1] = result[1] /\ x[2] # result[2] + 1

\* What is left of the search to do: the queue entries, and the routes out of
\* the stations not visited yet.
RECURSIVE RoutesFromUnvisited(_)
RoutesFromUnvisited(i) ==
    IF i = 0 THEN 0
    ELSE (IF i \in visited THEN 0 ELSE Len(objs[i].routes)) + RoutesFromUnvisited(i - 1)
Measure == Len(unvisited_stations) + RoutesFromUnvisited(Len(objs))

\* The search returns the "no route" value exactly when no directed path joins
\* the two stations, and a call that reached the search raises nothing.
C3_NoRouteResult ==
    /\ SearchReturned => (result = <<Inf, None>> <=> Paths = {})
    /\ SearchReturned => (result[1] = Inf <=> result[2] = None)
    /\ (call.op = "find_shortest_route" /\ pc = "raised")
           => raised.type = "StationDoesNotExistError"
    /\ (call.op = "find_shortest_route" /\ pc \in {"search", "returned"})
           => raised = NoError

\* C3: for two distinct stations of the graph with no directed path from the
\* first to the second, find_shortest_route terminates and returns
\* (math.inf, None) without raising, and it returns that value only then.
\* Termination: every iteration of the while loop that does not return
\* lowers Measure, a natural number, so the loop ends.
C3_Unreachable ==
    /\ []C3_NoRouteResult
    /\ [][(pc = "search" /\ pc' = "search") => (Measure' < Measure /\ Measure' >= 0)]_vars

\* A search on a graph with a cycle has emptied its queue after more than one
\* iteration and returned "no route".
C3_Witness ==
    /\ SearchReturned /\ result = <<Inf, None>>
    /\ Cardinality(visited) >= 2
    /\ \E u \in visited, v \in visited : u # v /\ HasRoute(u, v) /\ HasRoute(v, u)

\* C4: find_shortest_route raises StationDoesNotExistError naming the origin
\* when the origin name is no key of the graph (whether or not the
\* destination is one), and naming the destination when only the
\* destination is missing; it raises before any search state is built, and
\* raises nothing of the kind when both names are keys.
C4_MissingStation ==
    call.op = "find_shortest_route" =>
        LET o == call.origin_name
            d == call.destination_name
            K == Keys(stations)
            missing(n) == [type |-> "StationDoesNotExistError", arg |-> <<n>>, line |-> 0]
        IN /\ o \notin K => (pc = "raised" /\ raised = missing(o) /\ NoLocals
                             /\ result = NoResult)
           /\ (o \in K /\ d \notin K) => (pc = "raised" /\ raised = missing(d) /\ NoLocals
                                          /\ result = NoResult)
           /\ (o \in K /\ d \in K) => pc # "raised"

\* On the empty graph, a query for two different unknown names has raised.
C4_Witness ==
    /\ call.op = "find_shortest_route" /\ pc = "raised"
    /\ stations = <<>>
    /\ call.origin_name # call.destination_name
    /\ raised.arg = <<call.origin_name>>

\* C5: an add_route for an ordered pair that already has a route raises
\* DuplicateRouteError whatever the distance and leaves every stored route,
\* with its distance, as it was; an add_route for a pair that has no route
\* yet (the reverse of a stored route included) is accepted, stores the
\* given distance and changes no other route.
C5_DuplicateRoute ==
    [][(pc = "idle" /\ call'.op = "add_route") =>
        LET o == call'.origin_name
            d == call'.destination_name
        IN IF HasNamedRoute(stations, objs, o, d)
           THEN /\ pc' = "raised"
                /\ raised'.type = "DuplicateRouteError"
                /\ stations' = stations /\ objs' = objs
           ELSE /\ pc' = "returned" /\ raised' = NoError
                /\ HasNamedRoute(stations', objs', o, d)
                /\ WeightIn(objs', DictGet(stations', o), DictGet(stations', d))
                       = call'.distance
                /\ \A n \in Keys(stations) : DictGet(stations', n) = DictGet(stations, n)
                /\ \A u \in Refs, v \in Refs :
                       HasRoute(u, v) =>
                           /\ HasRouteIn(objs', u, v)
                           /\ WeightIn(objs', u, v) = Weight(u, v)
      ]_vars

\* An add_route with another distance than the stored one has been rejected,
\* on a graph that holds the reverse route too.
C5_Witness ==
    /\ call.op = "add_route" /\ pc = "raised" /\ raised.type = "DuplicateRouteError"
    /\ call.origin_name # call.destination_name
    /\ LET u == DictGet(stations, call.origin_name)
           v == DictGet(stations, call.destination_name)
       IN /\ HasRoute(u, v) /\ Weight(u, v) # call.distance
          /\ HasRoute(v, u)

\* C6: a query from a station of the graph to itself returns (0, 0) and builds
\* no search state, whatever routes the station has.
C6_SameStation ==
    (/\ call.op = "find_shortest_route"
     /\ call.origin_name = call.destination_name
     /\ call.origin_name \in Keys(stations))
    => (pc = "returned" /\ result = <<0, 0>> /\ raised = NoError /\ NoLocals)

\* A query from a station to itself has returned on a graph where the station
\* has a self-loop of positive weight and lies on a cycle through another station.
C6_Witness ==
    /\ call.op = "find_shortest_route" /\ pc = "returned"
    /\ call.origin_name = call.destination_name
    /\ LET a == DictGet(stations, call.origin_name)
       IN /\ HasRoute(a, a) /\ Weight(a, a) > 0
          /\ \E v \in Refs \ {a} : HasRoute(a, v) /\ HasRoute(v, a)

\* C7: every Station that is a key of some Station's routes is the Station
\* registered in `stations' under its own name; each registered name maps to
\* the Station of that name, no name is registered twice, and no Station
\* was ever constructed beside the registered ones (none was replaced).
C7_RoutesRegistered ==
    /\ \A s \in Refs : \A k \in Keys(objs[s].routes) :
           /\ k \in Refs
           /\ objs[k].name \in Keys(stations)
           /\ DictGet(stations, objs[k].name) = k
    /\ \A i \in DOMAIN stations :
           /\ stations[i].value \in Refs
           /\ objs[stations[i].value].name = stations[i].key
    /\ \A i \in DOMAIN stations, j \in DOMAIN stations :
           stations[i].key = stations[j].key => i = j
    /\ Len(objs) = Len(stations)

\* An add_route has been rejected on a graph of three stations or more in
\* which a station is both the end of a route and the start of another.
C7_Witness ==
    /\ call.op = "add_route" /\ pc = "raised"
    /\ Len(stations) >= 3
    /\ \E u \in Refs, v \in Refs, x \in Refs :
           u # v /\ v # x /\ HasRoute(u, v) /\ HasRoute(v, x)

\* C9: an iteration of the search loop that pops a stale entry (its station
\* is visited already, or has a smaller best-known distance than the
\* entry's) changes no entry of dist and none of prev and pushes nothing: the
\* queue only loses the popped entry. The iteration that returns has popped
\* an entry of the destination that is not stale, and returns its distance.
C9_StaleEntryIgnored ==
    [][(pc = "search" /\ Len(unvisited_stations) > 0) =>
        LET e == popped'
            stale == e[2] \in visited \/ dist[e[2]] < e[1]
        IN /\ e \in Range(unvisited_stations)
           /\ stale => /\ dist' = dist /\ prev' = prev
                       /\ pc' = "search"
                       /\ Len(unvisited_stations') = Len(unvisited_stations) - 1
                       /\ Range(unvisited_stations') = Range(unvisited_stations) \ {e}
           /\ pc' = "returned" => /\ ~stale
                                  /\ e[2] = destination
                                  /\ result'[1] = e[1]
      ]_vars

\* The search has just popped an entry whose distance is larger than the
\* best-known distance of its station, and goes on.
C9_Witness ==
    /\ pc = "search" /\ popped # <<>>
    /\ dist[popped[2]] < popped[1]

\* ------------------------------------------------------------------ the file, as the claims see it
\* Line i of the file is a row parse_routes can convert.
WellFormed(i) == read_lines[i].n >= 3 /\ int(read_lines[i].distance).ok
\* Line i names the ordered pair of an earlier row of the file.
Repeats(i) ==
    /\ WellFormed(i)
    /\ \E j \in 1..(i - 1) :
           /\ WellFormed(j)
           /\ read_lines[j].origin = read_lines[i].origin
           /\ read_lines[j].destination = read_lines[i].destination
\* Line i is a row parse_routes rejects.
Rejected(i) == read_lines[i].n # 0 /\ (~WellFormed(i) \/ Repeats(i))

C10_NonNegativeDistances ==
    ppc = "returned" =>
        \A u \in Refs, v \in Refs : HasRoute(u, v) => Weight(u, v) >= 0

====
